---- MODULE Spec2Model ----
(***************************************************************************)
(* Model of the resolution and generation core of nginx-gateway-fabric:    *)
(*   - route precedence (sortRoutes / higherPriority / lessObjectMeta),    *)
(*   - the client-settings size merge (getMaxSize, parseSizeToBytes) in    *)
(*     its two forms: the parsing one of clientsettings/generator.go and   *)
(*     the unit-comparing one of policies/generator.go,                    *)
(*   - the client-settings generator, its template and file names, over    *)
(*     policies and http.Location and over the dataplane scopes,           *)
(*   - the CompositeGenerator over GenerateResult {KeyVals, Files} and the *)
(*     one over the dataplane scopes, and the filters of a location result.*)
(*                                                                         *)
(* Go strings are modelled as sequences of one-character strings; Ord      *)
(* gives the byte value of a character, so that comparisons and            *)
(* conversions are computed on bytes as Go computes them.                  *)
(***************************************************************************)
EXTENDS Integers, Sequences, FiniteSets, TLC

VARIABLES
    routes,     \* the []Route slice handed to sortRoutes (sorted in place)
    input,      \* the slice as it was before sortRoutes ran
    sortPc,     \* "input" before sortRoutes, "sorted" after
    lits,       \* the size values handed to the size functions (*Size each)
    sizeOp,     \* the size function that ran, "none" before
    sizeOut,    \* what it returned
    gens,       \* CompositeGenerator.generators, in registration order
    scope,      \* the input of a generation call
    genOp,      \* the generation call that ran, "none" before
    genOut      \* what it returned

sortVars == <<routes, input, sortPc>>
sizeVars == <<lits, sizeOp, sizeOut>>
genVars == <<gens, scope, genOp, genOut>>

vars == <<routes, input, sortPc, lits, sizeOp, sizeOut, gens, scope, genOp, genOut>>

(***************************************************************************)
(* Strings                                                                 *)
(***************************************************************************)

\* Byte value of the characters the model uses.
Ord(c) ==
    CASE c = "-" -> 45
      [] c = "/" -> 47
      [] c = "0" -> 48
      [] c = "1" -> 49
      [] c = "2" -> 50
      [] c = "3" -> 51
      [] c = "4" -> 52
      [] c = "5" -> 53
      [] c = "6" -> 54
      [] c = "7" -> 55
      [] c = "8" -> 56
      [] c = "9" -> 57
      [] c = "K" -> 75
      [] c = "M" -> 77
      [] c = "G" -> 71
      [] c = "a" -> 97
      [] c = "b" -> 98
      [] c = "g" -> 103
      [] c = "k" -> 107
      [] c = "m" -> 109
      [] c = "x" -> 120
      [] c = "y" -> 121

\* Go's s < t on strings: bytewise lexicographic, a proper prefix is smaller.
RECURSIVE StringLess(_, _)
StringLess(s, t) ==
    IF t = <<>> THEN FALSE
    ELSE IF s = <<>> THEN TRUE
    ELSE IF Ord(Head(s)) # Ord(Head(t)) THEN Ord(Head(s)) < Ord(Head(t))
    ELSE StringLess(Tail(s), Tail(t))

(***************************************************************************)
(* Precedence resolver                                                     *)
(***************************************************************************)

\* "namespace/name" of an object.
getResourceKey(meta) == meta.Namespace \o <<"/">> \o meta.Name

lessObjectMeta_IgnoresKey(meta1, meta2) ==
    meta1.CreationTimestamp < meta2.CreationTimestamp

lessObjectMeta_NewerFirst(meta1, meta2) ==
    IF meta1.CreationTimestamp = meta2.CreationTimestamp
    THEN StringLess(getResourceKey(meta1), getResourceKey(meta2))
    ELSE meta1.CreationTimestamp > meta2.CreationTimestamp

lessObjectMeta(meta1, meta2) ==
    IF meta1.CreationTimestamp = meta2.CreationTimestamp
    THEN StringLess(getResourceKey(meta1), getResourceKey(meta2))
    ELSE meta1.CreationTimestamp < meta2.CreationTimestamp

higherPriority_QueryFirst(route1, route2) ==
    IF route1.QueryParams # route2.QueryParams
    THEN route1.QueryParams > route2.QueryParams
    ELSE IF route1.Headers # route2.Headers
    THEN route1.Headers > route2.Headers
    ELSE lessObjectMeta(route1.Source, route2.Source)

\* Headers and QueryParams hold len(match.Headers) and len(match.QueryParams).
higherPriority(route1, route2) ==
    IF route1.Headers # route2.Headers
    THEN route1.Headers > route2.Headers
    ELSE IF route1.QueryParams # route2.QueryParams
    THEN route1.QueryParams > route2.QueryParams
    ELSE lessObjectMeta(route1.Source, route2.Source)

Swap(s, i, j) == [s EXCEPT ![i] = s[j], ![j] = s[i]]

\* sort.SliceStable on fewer than 20 elements is one insertion sort:
\*   for i := a+1; i < b; i++ { for j := i; j > a && less(j, j-1); j-- { swap(j, j-1) } }
RECURSIVE insertDown_Unstable(_, _)
insertDown_Unstable(s, j) ==
    IF j > 1 /\ ~higherPriority(s[j - 1], s[j])
    THEN insertDown_Unstable(Swap(s, j, j - 1), j - 1)
    ELSE s

RECURSIVE insertDown(_, _)
insertDown(s, j) ==
    IF j > 1 /\ higherPriority(s[j], s[j - 1])
    THEN insertDown(Swap(s, j, j - 1), j - 1)
    ELSE s

RECURSIVE insertionSort(_, _)
insertionSort(s, i) ==
    IF i > Len(s) THEN s ELSE insertionSort(insertDown(s, i), i + 1)

SliceStable(s) == insertionSort(s, 2)

(***************************************************************************)
(* Size literals: strconv, regexp and int64 arithmetic                     *)
(***************************************************************************)

IsDigitChar(c) == Ord(c) >= 48 /\ Ord(c) <= 57

AllDigits(s) == \A i \in DOMAIN s : IsDigitChar(s[i])

\* Value of a string of decimal digits.
RECURSIVE DecimalValue(_)
DecimalValue(s) ==
    IF s = <<>> THEN 0
    ELSE DecimalValue(SubSeq(s, 1, Len(s) - 1)) * 10 + (Ord(s[Len(s)]) - 48)

\* strconv.Atoi: an optional sign and at least one digit, nothing else.
Atoi(s) ==
    LET signed == s # <<>> /\ Head(s) \in {"-", "+"}
        digits == IF signed THEN Tail(s) ELSE s
    IN  IF digits = <<>> \/ ~AllDigits(digits)
        THEN [err |-> TRUE, val |-> 0]
        ELSE [err |-> FALSE,
              val |-> IF signed /\ Head(s) = "-"
                      THEN 0 - DecimalValue(digits) ELSE DecimalValue(digits)]

\* strings.ToLower on one character.
ToLowerChar(c) ==
    CASE c = "K" -> "k"
      [] c = "M" -> "m"
      [] c = "G" -> "g"
      [] OTHER -> c

ToLower(s) == [i \in DOMAIN s |-> ToLowerChar(s[i])]

\* An int64 is held as seven base-1024 digits, least significant first, of its
\* two's complement bit pattern: the seventh holds bits 60 to 63.
Limbs == 1..7

ToInt64(n) ==
    [i \in Limbs |->
        CASE i = 1 -> n % 1024
          [] i = 2 -> (n \div 1024) % 1024
          [] i = 3 -> (n \div 1048576) % 1024
          [] i = 4 -> n \div 1073741824
          [] OTHER -> 0]

RECURSIVE ConvSum(_, _, _, _)
ConvSum(a, b, k, i) ==
    IF i > k THEN 0 ELSE a[i] * b[k - i + 1] + ConvSum(a, b, k, i + 1)

RECURSIVE MulFrom(_, _, _, _)
MulFrom(a, b, k, carry) ==
    IF k > 7 THEN <<>>
    ELSE LET t == ConvSum(a, b, k, 1) + carry
         IN  <<IF k = 7 THEN t % 16 ELSE t % 1024>> \o MulFrom(a, b, k + 1, t \div 1024)

\* a * b on int64: the low 64 bits of the product.
MulInt64(a, b) == MulFrom(a, b, 1, 0)

NegInt64(a) == a[7] >= 8

RECURSIVE GreaterFrom(_, _, _)
GreaterFrom(a, b, k) ==
    IF k = 0 THEN FALSE
    ELSE IF a[k] # b[k] THEN a[k] > b[k]
    ELSE GreaterFrom(a, b, k - 1)

\* a > b on int64.
GreaterInt64(a, b) ==
    IF NegInt64(a) # NegInt64(b) THEN NegInt64(b) ELSE GreaterFrom(a, b, 7)

(***************************************************************************)
(* clientsettings/generator.go: parseSizeToBytes and getMaxSize            *)
(***************************************************************************)

\* A key the map does not hold reads as 0.
sizeMultipliers(unit) ==
    CASE unit = <<"b">> -> ToInt64(1)
      [] unit = <<"k">> -> ToInt64(1024)
      [] unit = <<"m">> -> ToInt64(1024 * 1024)
      [] unit = <<"g">> -> ToInt64(1024 * 1024 * 1024)
      [] OTHER -> ToInt64(0)

\* The lengths n of a digit prefix with which ^(\d{1,4})(k|m|g)?$ matches s.
RegexpSplits(s) ==
    { n \in 1..4 :
        /\ n <= Len(s)
        /\ AllDigits(SubSeq(s, 1, n))
        /\ SubSeq(s, n + 1, Len(s)) \in {<<>>, <<"k">>, <<"m">>, <<"g">>} }

\* re.FindStringSubmatch: nil without a match, else the match and its two groups.
FindStringSubmatch(s) ==
    IF RegexpSplits(s) = {} THEN <<>>
    ELSE LET n == CHOOSE n \in RegexpSplits(s) : TRUE
         IN  <<s, SubSeq(s, 1, n), SubSeq(s, n + 1, Len(s))>>

parseSizeToBytes(s) ==
    LET matches == FindStringSubmatch(s)
    IN  IF Len(matches) < 3
        THEN [err |-> TRUE, bytes |-> ToInt64(0)]
        ELSE LET value == ToInt64(DecimalValue(matches[2]))
                 lower == ToLower(matches[3])
                 unit  == IF lower = <<>> THEN <<"b">> ELSE lower
             IN  [err |-> FALSE, bytes |-> MulInt64(value, sizeMultipliers(unit))]

\* A call that returns a size, or panics.
Returned(s) == [panic |-> FALSE, val |-> s]
Panicked == [panic |-> TRUE, val |-> <<>>]

\* getMaxSize(s1, s2 ngfAPI.Size) of clientsettings/generator.go.
getMaxSize(s1, s2) ==
    IF s1 = <<>> THEN Returned(s2)
    ELSE IF s2 = <<>> THEN Returned(s1)
    ELSE LET p1 == parseSizeToBytes(s1)
             p2 == parseSizeToBytes(s2)
         IN  IF p1.err \/ p2.err THEN Panicked
             ELSE IF GreaterInt64(p1.bytes, p2.bytes) THEN Returned(s1)
             ELSE Returned(s2)

(***************************************************************************)
(* policies/generator.go: getMaxSize(s1 ngfAPI.Size, s2 *ngfAPI.Size)      *)
(***************************************************************************)

\* A *ngfAPI.Size.
NilSize == [isNil |-> TRUE, val |-> <<>>]
PtrTo(s) == [isNil |-> FALSE, val |-> s]

\* isDigit(char): strconv.Atoi(char) succeeds.
isDigit(char) == ~Atoi(char).err

\* s[len(s)-1:], which panics on the empty string.
LastChar(s) == SubSeq(s, Len(s), Len(s))
\* s[:len(s)-1]
ButLast(s) == SubSeq(s, 1, Len(s) - 1)

getMaxSizePtr(s1, s2) ==
    IF s2.isNil THEN Returned(s1)
    ELSE IF s1 = <<>> THEN Returned(s2.val)
    ELSE IF s2.val = <<>> THEN Panicked
    ELSE LET s1Str == s1
             s2Str == s2.val
             s1Unit == LastChar(s1Str)
             s2Unit == LastChar(s2Str)
         IN  IF isDigit(s1Unit) /\ ~isDigit(s2Unit) THEN Returned(s2.val)
             ELSE IF ~isDigit(s1Unit) /\ isDigit(s2Unit) THEN Returned(s1)
             ELSE IF s1Unit = s2Unit
             THEN LET s1Int == Atoi(ButLast(s1Str))
                      s2Int == Atoi(ButLast(s2Str))
                  IN  IF s1Int.err \/ s2Int.err THEN Panicked
                      ELSE IF s1Int.val > s2Int.val THEN Returned(s1)
                      ELSE Returned(s2.val)
             ELSE CASE s1Unit = <<"k">> -> Returned(s2.val)
                    [] s1Unit = <<"m">> ->
                          IF s2Unit = <<"g">> THEN Returned(s2.val) ELSE Returned(s1)
                    [] s1Unit = <<"g">> -> Returned(s1)
                    [] OTHER -> Returned(s1)

(***************************************************************************)
(* The merge loops of the generators over the policies' Body.MaxSize       *)
(***************************************************************************)

\* GenerateForLocation of clientsettings/generator.go: the loop over pols that
\* skips a nil MaxSize and merges the others into maxBodySize, from "".
RECURSIVE mergeMaxSize(_, _)
mergeMaxSize(sizes, maxBodySize) ==
    IF sizes = <<>> THEN Returned(maxBodySize)
    ELSE IF Head(sizes).isNil THEN mergeMaxSize(Tail(sizes), maxBodySize)
    ELSE LET r == getMaxSize(maxBodySize, Head(sizes).val)
         IN  IF r.panic THEN Panicked ELSE mergeMaxSize(Tail(sizes), r.val)

\* GenerateForPathRule of policies/generator.go: the loops over the match rules
\* and their policies that merge every Body.MaxSize into maxBodySize, from "".
RECURSIVE mergeMaxSizePtr(_, _)
mergeMaxSizePtr(sizes, maxBodySize) ==
    IF sizes = <<>> THEN Returned(maxBodySize)
    ELSE LET r == getMaxSizePtr(maxBodySize, Head(sizes))
         IN  IF r.panic THEN Panicked ELSE mergeMaxSizePtr(Tail(sizes), r.val)

(***************************************************************************)
(* Client-settings generator: templates                                    *)
(***************************************************************************)

ClientSettingsPolicyStr ==
    <<"C", "l", "i", "e", "n", "t", "S", "e", "t", "t", "i", "n", "g", "s",
    "P", "o", "l", "i", "c", "y">>
ConfStr ==
    <<".", "c", "o", "n", "f">>
RedirectConfStr ==
    <<"_", "r", "e", "d", "i", "r", "e", "c", "t", ".", "c", "o", "n", "f">>
IntConfStr ==
    <<"_", "i", "n", "t", ".", "c", "o", "n", "f">>
ExtConfStr ==
    <<"_", "e", "x", "t", ".", "c", "o", "n", "f">>
ServerConfStr ==
    <<"_", "s", "e", "r", "v", "e", "r", ".", "c", "o", "n", "f">>

\* A nil pointer to a struct, and a pointer to one.
NilPtr == [isNil |-> TRUE]
IsSet(p) == ~p.isNil

\* clientSettingsTemplate executed on csp.Spec. A field is a pointer and
\* {{ if }} is true of every pointer that is not nil. The text is a sequence of
\* chunks: the fixed text of the template and the characters of the values.
\* The newline that ends the template is emitted for every Spec.
clientSettingsTemplate(spec) ==
    LET body ==
            IF IsSet(spec.Body)
            THEN (IF IsSet(spec.Body.MaxSize)
                  THEN <<"\nclient_max_body_size ">> \o spec.Body.MaxSize.val \o <<";">>
                  ELSE <<>>)
                 \o
                 (IF IsSet(spec.Body.Timeout)
                  THEN <<"\nclient_body_timeout ">> \o spec.Body.Timeout.val \o <<";">>
                  ELSE <<>>)
            ELSE <<>>
        timeout(t) ==
            IF IsSet(t.Server) /\ IsSet(t.Header)
            THEN <<"\nkeepalive_timeout ">> \o t.Server.val \o <<" ">> \o t.Header.val \o <<";">>
            ELSE IF IsSet(t.Server)
            THEN <<"\nkeepalive_timeout ">> \o t.Server.val \o <<";">>
            ELSE <<>>
        keepAlive ==
            IF IsSet(spec.KeepAlive)
            THEN (IF IsSet(spec.KeepAlive.Requests)
                  THEN <<"\nkeepalive_requests ">> \o spec.KeepAlive.Requests.val \o <<";">>
                  ELSE <<>>)
                 \o
                 (IF IsSet(spec.KeepAlive.Time)
                  THEN <<"\nkeepalive_time ">> \o spec.KeepAlive.Time.val \o <<";">>
                  ELSE <<>>)
                 \o
                 (IF IsSet(spec.KeepAlive.Timeout)
                  THEN timeout(spec.KeepAlive.Timeout)
                  ELSE <<>>)
            ELSE <<>>
    IN  body \o keepAlive \o <<"\n">>

\* externalRedirectTemplate executed on the merged maximum.
externalRedirectTemplate(maxBodySize) ==
    <<"\nclient_max_body_size ">> \o maxBodySize \o <<";\n">>

\* pol.(*ngfAPI.ClientSettingsPolicy)
IsClientSettingsPolicy(pol) == pol.Type = "ClientSettingsPolicy"

\* The policies of pols that are ClientSettingsPolicies, in their order.
RECURSIVE SelectCSP(_)
SelectCSP(pols) ==
    IF pols = <<>> THEN <<>>
    ELSE IF IsClientSettingsPolicy(Head(pols))
    THEN <<Head(pols)>> \o SelectCSP(Tail(pols))
    ELSE SelectCSP(Tail(pols))

RECURSIVE Flatten(_)
Flatten(ss) == IF ss = <<>> THEN <<>> ELSE Head(ss) \o Flatten(Tail(ss))

(***************************************************************************)
(* clientsettings/generator.go: Generator over policies and http.Location  *)
(***************************************************************************)

\* Body.MaxSize of the ClientSettingsPolicies with a Body, nil ones included.
BodyMaxSizes(pols) ==
    LET csps == SelectCSP(pols)
        withBody == SelectSeq(csps, LAMBDA csp : IsSet(csp.Spec.Body))
    IN  [i \in DOMAIN withBody |-> withBody[i].Spec.Body.MaxSize]

\* A generator call that returns files, or panics.
Files(fs) == [panic |-> FALSE, files |-> fs]
GeneratorPanicked == [panic |-> TRUE, files |-> <<>>]

\* Generator.GenerateForLocation(pols, location)
GenerateForLocation(pols, location) ==
    IF location.Type = "ExternalLocationType"
    THEN LET csps == SelectCSP(pols)
         IN  Files([i \in DOMAIN csps |->
                 [Name |-> ClientSettingsPolicyStr \o <<"_">> \o csps[i].Namespace
                               \o <<"_">> \o csps[i].Name \o ExtConfStr,
                  Content |-> clientSettingsTemplate(csps[i].Spec)]])
    ELSE LET maxBodySize == mergeMaxSize(BodyMaxSizes(pols), <<>>)
         IN  IF maxBodySize.panic THEN GeneratorPanicked
             ELSE IF maxBodySize.val = <<>> THEN Files(<<>>)
             ELSE Files(<<[Name |-> ClientSettingsPolicyStr \o <<"_">>
                                        \o location.HTTPMatchKey \o RedirectConfStr,
                           Content |-> externalRedirectTemplate(maxBodySize.val)]>>)

\* Generator.GenerateForInternalLocation(pols, internalLocation)
GenerateForInternalLocation(pols, internalLocation) ==
    LET csps == SelectCSP(pols)
    IN  Files([i \in DOMAIN csps |->
            [Name |-> ClientSettingsPolicyStr \o <<"_">> \o csps[i].Namespace
                          \o <<"_">> \o csps[i].Name \o IntConfStr,
             Content |-> clientSettingsTemplate(csps[i].Spec)]])

\* Generator.GenerateForServer(pols, server) over http.Server: a policy whose
\* rendered content has length 0 is skipped.
GenerateForHTTPServer(pols, server) ==
    LET csps == SelectCSP(pols)
        withContent ==
            SelectSeq(csps, LAMBDA csp : Len(clientSettingsTemplate(csp.Spec)) # 0)
    IN  Files([i \in DOMAIN withContent |->
            [Name |-> ClientSettingsPolicyStr \o <<"_">> \o withContent[i].Namespace
                          \o <<"_">> \o withContent[i].Name \o ServerConfStr,
             Content |-> clientSettingsTemplate(withContent[i].Spec)]])

(***************************************************************************)
(* policies/generator.go: clientsettings Generator over the dataplane      *)
(* scopes                                                                  *)
(***************************************************************************)

\* GenerateForServer with a file of no content for a server without a
\* ClientSettingsPolicy.
GenerateForServer_Placeholder(server) ==
    LET csps == SelectCSP(server.Policies)
    IN  IF csps = <<>>
        THEN Files(<<[Name |-> ClientSettingsPolicyStr \o ConfStr, Content |-> <<>>]>>)
        ELSE Files([i \in DOMAIN csps |->
                [Name |-> csps[i].Kind \o <<"_">> \o csps[i].Namespace
                              \o <<"_">> \o csps[i].Name \o ConfStr,
                 Content |-> clientSettingsTemplate(csps[i].Spec)]])

\* Generator.GenerateForServer(server)
GenerateForServer(server) ==
    LET csps == SelectCSP(server.Policies)
    IN  Files([i \in DOMAIN csps |->
            [Name |-> csps[i].Kind \o <<"_">> \o csps[i].Namespace
                          \o <<"_">> \o csps[i].Name \o ConfStr,
             Content |-> clientSettingsTemplate(csps[i].Spec)]])

\* strings.ReplaceAll(path, "/", "")
removeSlashFromPath(path) == SelectSeq(path, LAMBDA c : c # "/")

\* Generator.GenerateForPathRule(rule)
GenerateForPathRule(rule) ==
    LET pols == Flatten([i \in DOMAIN rule.MatchRules |-> rule.MatchRules[i].Policies])
        maxBodySize == mergeMaxSizePtr(BodyMaxSizes(pols), <<>>)
    IN  IF maxBodySize.panic THEN GeneratorPanicked
        ELSE IF maxBodySize.val = <<>> THEN Files(<<>>)
        ELSE Files(<<[Name |-> ClientSettingsPolicyStr \o <<"_">> \o rule.PathType \o <<"_">>
                                   \o removeSlashFromPath(rule.Path) \o RedirectConfStr,
                      Type |-> "ExternalRedirect",
                      Content |-> externalRedirectTemplate(maxBodySize.val)]>>)

\* GenerateForMatchRule without the file of the internal location.
GenerateForMatchRule_ExternalOnly(rule) ==
    LET csps == SelectCSP(rule.Policies)
    IN  Files([i \in DOMAIN csps |->
            [Name |-> csps[i].Kind \o <<"_">> \o csps[i].Namespace
                          \o <<"_">> \o csps[i].Name \o ExtConfStr,
             Type |-> "External",
             Content |-> clientSettingsTemplate(csps[i].Spec)]])

\* Generator.GenerateForMatchRule(rule)
GenerateForMatchRule(rule) ==
    LET csps == SelectCSP(rule.Policies)
    IN  Files(Flatten([i \in DOMAIN csps |->
            LET fileContents == clientSettingsTemplate(csps[i].Spec)
            IN  << [Name |-> csps[i].Kind \o <<"_">> \o csps[i].Namespace
                                 \o <<"_">> \o csps[i].Name \o IntConfStr,
                    Type |-> "Internal",
                    Content |-> fileContents],
                   [Name |-> csps[i].Kind \o <<"_">> \o csps[i].Namespace
                                 \o <<"_">> \o csps[i].Name \o ExtConfStr,
                    Type |-> "External",
                    Content |-> fileContents] >>]))

(***************************************************************************)
(* policies/generator.go: the filters of a GenerateForLocationResult       *)
(***************************************************************************)

\* GenerateForLocationResult.ForInternalLocation()
ForInternalLocation(locFile) == SelectSeq(locFile, LAMBDA f : f.Type = "Internal")

\* ForExternalLocation that takes every file that is not Internal.
ForExternalLocation_NotInternal(locFile) == SelectSeq(locFile, LAMBDA f : f.Type # "Internal")

\* GenerateForLocationResult.ForExternalLocation()
ForExternalLocation(locFile) == SelectSeq(locFile, LAMBDA f : f.Type = "External")

\* GenerateForLocationResult.ForExternalRedirectLocation()
ForExternalRedirectLocation(locFile) ==
    SelectSeq(locFile, LAMBDA f : f.Type = "ExternalRedirect")

(***************************************************************************)
(* policies/generator.go: CompositeGenerator over the dataplane scopes     *)
(***************************************************************************)

\* A Generator other than the client-settings one: it returns g.count files
\* for every input, named after itself.
OtherGeneratorFiles(g, method) ==
    Files([k \in 1..g.count |->
        LET name == g.name \o <<"_", IF k = 1 THEN "1" ELSE "2">> \o ConfStr
            content == <<"\n">> \o g.name \o <<";\n">>
        IN  IF method = "GenerateForServer"
            THEN [Name |-> name, Content |-> content]
            ELSE [Name |-> name,
                  Type |-> IF k = 1 THEN "Internal" ELSE "External",
                  Content |-> content]])

\* generator.GenerateForServer(server), GenerateForPathRule(rule) or
\* GenerateForMatchRule(rule) on one registered generator.
CallGenerator(g, method, in) ==
    IF g.impl = "clientsettings.Generator"
    THEN CASE method = "GenerateForServer" -> GenerateForServer(in)
           [] method = "GenerateForPathRule" -> GenerateForPathRule(in)
           [] method = "GenerateForMatchRule" -> GenerateForMatchRule(in)
    ELSE OtherGeneratorFiles(g, method)

\* What a composite call came to: the files returned, or a panic of one of
\* the generators, and the calls made, each <<index of the generator, input>>.
RECURSIVE appendResults_SkipsLast(_, _, _, _, _)
appendResults_SkipsLast(generators, i, method, in, acc) ==
    IF i >= Len(generators) THEN acc
    ELSE LET r == CallGenerator(generators[i], method, in)
             calls == Append(acc.calls, <<i, in>>)
         IN  IF r.panic THEN [panic |-> TRUE, files |-> <<>>, calls |-> calls]
             ELSE appendResults_SkipsLast(generators, i + 1, method, in,
                      [panic |-> FALSE, files |-> acc.files \o r.files, calls |-> calls])

\* for _, generator := range g.generators { results = append(results, ...) }
RECURSIVE appendResults(_, _, _, _, _)
appendResults(generators, i, method, in, acc) ==
    IF i > Len(generators) THEN acc
    ELSE LET r == CallGenerator(generators[i], method, in)
             calls == Append(acc.calls, <<i, in>>)
         IN  IF r.panic THEN [panic |-> TRUE, files |-> <<>>, calls |-> calls]
             ELSE appendResults(generators, i + 1, method, in,
                      [panic |-> FALSE, files |-> acc.files \o r.files, calls |-> calls])

NoResults == [panic |-> FALSE, files |-> <<>>, calls |-> <<>>]

\* CompositeGenerator.GenerateForServer(server)
CompositeGenerateForServer(generators, server) ==
    appendResults(generators, 1, "GenerateForServer", server, NoResults)

\* CompositeGenerator.GenerateForPathRule(rule)
CompositeGenerateForPathRule(generators, rule) ==
    appendResults(generators, 1, "GenerateForPathRule", rule, NoResults)

\* CompositeGenerator.GenerateForMatchRule(rule)
CompositeGenerateForMatchRule(generators, rule) ==
    appendResults(generators, 1, "GenerateForMatchRule", rule, NoResults)

(***************************************************************************)
(* policies/generator.go: CompositeGenerator over policies and             *)
(* http.Location, with GenerateResult {KeyVals, Files}                     *)
(***************************************************************************)

\* A map[string]interface{}: nil, or its entries, one for a key.
NilMap == [isNil |-> TRUE, entries |-> {}]
MapOf(entries) == [isNil |-> FALSE, entries |-> entries]
MapKeys(m) == { e.key : e \in m.entries }

\* maps.Copy(dst, src): dst[k] = v for every entry of src. The assignment to
\* an entry of a nil map panics; without an entry in src nothing is assigned.
mapsCopy(dst, src) ==
    IF src.entries = {} THEN [panic |-> FALSE, map |-> dst]
    ELSE IF dst.isNil THEN [panic |-> TRUE, map |-> dst]
    ELSE [panic |-> FALSE,
          map |-> MapOf({ e \in dst.entries : e.key \notin MapKeys(src) } \cup src.entries)]

\* A GenerateResult, or the panic of the call.
GenerateResult(keyVals, files) == [panic |-> FALSE, KeyVals |-> keyVals, Files |-> files]
ResultPanicked == [panic |-> TRUE, KeyVals |-> NilMap, Files |-> <<>>]

\* A Generator other than the client-settings one: it returns g.count files
\* and the map g.keyVals for every input.
OtherGenerateResult(g) ==
    GenerateResult(g.keyVals,
        [k \in 1..g.count |->
            [Name |-> g.name \o <<"_", IF k = 1 THEN "1" ELSE "2">> \o ConfStr,
             Content |-> <<"\n">> \o g.name \o <<";\n">>]])

\* policies.GenerateResult{Files: files}: the KeyVals of the client-settings
\* generator is nil.
FilesOnly(r) == IF r.panic THEN ResultPanicked ELSE GenerateResult(NilMap, r.files)

\* generator.GenerateForLocation, GenerateForInternalLocation or
\* GenerateForServer on one registered generator.
CallPolicyGenerator(g, method, pols, in) ==
    IF g.impl = "clientsettings.Generator"
    THEN FilesOnly(CASE method = "GenerateForLocation" -> GenerateForLocation(pols, in)
                     [] method = "GenerateForInternalLocation" ->
                           GenerateForInternalLocation(pols, in)
                     [] method = "GenerateForServer" -> GenerateForHTTPServer(pols, in))
    ELSE OtherGenerateResult(g)

\* var compositeResult GenerateResult
ZeroGenerateResult == GenerateResult(NilMap, <<>>)

\* compositeResult.Files = append(compositeResult.Files, result.Files...)
\* maps.Copy(compositeResult.KeyVals, result.KeyVals)
appendAndCopy(compositeResult, result) ==
    IF result.panic THEN ResultPanicked
    ELSE LET copied == mapsCopy(compositeResult.KeyVals, result.KeyVals)
         IN  IF copied.panic THEN ResultPanicked
             ELSE GenerateResult(copied.map, compositeResult.Files \o result.Files)

\* result := generator.<method>(policies, in) of every registered generator.
\* A generator has no state, so what it returns does not depend on the
\* generators called before it.
generatorResults(generators, method, pols, in) ==
    [i \in DOMAIN generators |-> CallPolicyGenerator(generators[i], method, pols, in)]

\* for _, generator := range g.generators { ... }: the loop ends at the
\* first result, or the first maps.Copy, that panics.
RECURSIVE copyResults(_, _, _)
copyResults(results, i, compositeResult) ==
    IF i > Len(results) THEN compositeResult
    ELSE LET next == appendAndCopy(compositeResult, results[i])
         IN  IF next.panic THEN ResultPanicked
             ELSE copyResults(results, i + 1, next)

\* CompositeGenerator.GenerateForInternalLocation(policies, internalLocation)
CompositeGenerateForInternalLocation(generators, pols, internalLocation) ==
    copyResults(generatorResults(generators, "GenerateForInternalLocation", pols,
                                 internalLocation),
                1, ZeroGenerateResult)

\* CompositeGenerator.GenerateForServer(policies, server) over http.Server
CompositeGenerateForHTTPServer(generators, pols, server) ==
    copyResults(generatorResults(generators, "GenerateForServer", pols, server),
                1, ZeroGenerateResult)

\* CompositeGenerator.GenerateForLocation(policies, location)
CompositeGenerateForLocation(generators, pols, location) ==
    copyResults(generatorResults(generators, "GenerateForLocation", pols, location),
                1, ZeroGenerateResult)

(***************************************************************************)
(* Inputs of the precedence resolver                                       *)
(***************************************************************************)

MaxRoutes == 3

\* Three route objects. "a-/x" is smaller than "a/x" as a string although the
\* namespace "a" is smaller than "a-"; a/x and a/y differ in the name alone.
KeySet ==
    { [Namespace |-> <<"a">>,      Name |-> <<"x">>],
      [Namespace |-> <<"a">>,      Name |-> <<"y">>],
      [Namespace |-> <<"a", "-">>, Name |-> <<"x">>] }

Timestamps == {0, 1}

\* a/x and a/y are taken with either timestamp, a-/x with the later one.
SourceSet ==
    { src \in { [Namespace |-> k.Namespace, Name |-> k.Name, CreationTimestamp |-> ts] :
                    k \in KeySet, ts \in Timestamps } :
        src.Namespace = <<"a", "-">> => src.CreationTimestamp = 1 }

HeaderCounts == {0, 1}
QueryParamCounts == {0, 1}

\* One match of one route object. MatchIdx tells the entries of a slice apart.
MatchSet == [Source : SourceSet, Headers : HeaderCounts, QueryParams : QueryParamCounts]

RouteSlices ==
    UNION { [1..n -> MatchSet] : n \in 0..MaxRoutes }

WithMatchIdx(s) ==
    [i \in DOMAIN s |->
        [Source |-> s[i].Source, Headers |-> s[i].Headers,
         QueryParams |-> s[i].QueryParams, MatchIdx |-> i - 1]]

\* An object has one creation timestamp: entries with one key have one Source.
OneSourcePerKey(s) ==
    \A i, j \in DOMAIN s :
        getResourceKey(s[i].Source) = getResourceKey(s[j].Source) => s[i].Source = s[j].Source

SizeIdle == lits = <<>> /\ sizeOp = "none" /\ sizeOut = Returned(<<>>)

GenIdle ==
    /\ gens = <<>>
    /\ scope = [kind |-> "none"]
    /\ genOp = "none"
    /\ genOut = Files(<<>>)

InitSort ==
    /\ \E s \in RouteSlices : OneSourcePerKey(s) /\ routes = WithMatchIdx(s)
    /\ input = routes
    /\ sortPc = "input"
    /\ SizeIdle
    /\ GenIdle

sortRoutes ==
    /\ sortPc = "input"
    /\ routes' = SliceStable(routes)
    /\ sortPc' = "sorted"
    /\ UNCHANGED <<input, sizeVars, genVars>>

NextSort == sortRoutes

SpecSort == InitSort /\ [][NextSort]_vars

(***************************************************************************)
(* Inputs of the size functions                                            *)
(***************************************************************************)

MaxLits == 3

Numerals ==
    { <<"1">>, <<"2">>, <<"5">>, <<"1", "0">>, <<"1", "5">>, <<"2", "0">>,
      <<"1", "0", "2", "4">>, <<"1", "0", "2", "5">>, <<"2", "0", "4", "8">>,
      <<"9", "9", "9", "9">> }

Units == { <<>>, <<"k">>, <<"m">>, <<"g">> }
UpperUnits == { <<"K">>, <<"M">>, <<"G">> }

\* Literals of the grammar <1 to 4 digits><optional unit k, m or g>.
ValidLiterals == { n \o u : n \in Numerals, u \in Units }

UpperLiterals == { n \o u : n \in {<<"1">>, <<"1", "0", "2", "4">>, <<"9", "9", "9", "9">>},
                            u \in UpperUnits }

\* No digits, more than four digits, an unknown unit, two units, a sign.
MalformedLiterals ==
    { <<>>, <<"k">>, <<"1", "2", "3", "4", "5">>, <<"0", "0", "0", "0", "1">>,
      <<"1", "0", "2", "4", "0", "k">>, <<"1", "x">>, <<"1", "b">>,
      <<"1", "k", "k">>, <<"k", "1">>, <<"-", "1">>, <<"1", "k", "1">> }

ParseLiterals == ValidLiterals \cup UpperLiterals \cup MalformedLiterals

\* The second argument of a merge: a literal, the empty value, or nil.
PairValues == { PtrTo(s) : s \in ValidLiterals \cup {<<>>} } \cup {NilSize}

\* The values a longer merge is folded over.
FoldValues ==
    { PtrTo(<<"1", "5">>), PtrTo(<<"2", "0">>), PtrTo(<<"2", "0", "4", "8">>),
      PtrTo(<<"1", "k">>), PtrTo(<<"1", "0", "2", "5", "k">>), PtrTo(<<"1", "m">>),
      PtrTo(<<"1", "0", "2", "4", "k">>), PtrTo(<<"1", "0", "m">>), NilSize }

SizeInputs ==
    { <<PtrTo(s)>> : s \in ParseLiterals }
        \cup [1..2 -> PairValues]
        \cup UNION { [1..n -> FoldValues] : n \in 3..MaxLits }

SortIdle == routes = <<>> /\ input = <<>> /\ sortPc = "idle"

InitSize ==
    /\ lits \in SizeInputs
    /\ sizeOp = "none"
    /\ sizeOut = Returned(<<>>)
    /\ SortIdle
    /\ GenIdle

\* parseSizeToBytes(s)
CallParseSizeToBytes ==
    /\ sizeOp = "none"
    /\ Len(lits) = 1
    /\ ~lits[1].isNil
    /\ sizeOut' = parseSizeToBytes(lits[1].val)
    /\ sizeOp' = "parseSizeToBytes"
    /\ UNCHANGED <<lits, sortVars, genVars>>

\* getMaxSize(s1, s2) of clientsettings/generator.go
CallGetMaxSize ==
    /\ sizeOp = "none"
    /\ Len(lits) = 2
    /\ ~lits[1].isNil /\ ~lits[2].isNil
    /\ sizeOut' = getMaxSize(lits[1].val, lits[2].val)
    /\ sizeOp' = "getMaxSize"
    /\ UNCHANGED <<lits, sortVars, genVars>>

\* getMaxSize(s1, s2) of policies/generator.go, s2 a pointer
CallGetMaxSizePtr ==
    /\ sizeOp = "none"
    /\ Len(lits) = 2
    /\ ~lits[1].isNil
    /\ sizeOut' = getMaxSizePtr(lits[1].val, lits[2])
    /\ sizeOp' = "getMaxSizePtr"
    /\ UNCHANGED <<lits, sortVars, genVars>>

\* The merge loop of clientsettings/generator.go over lits
CallMergeMaxSize ==
    /\ sizeOp = "none"
    /\ sizeOut' = mergeMaxSize(lits, <<>>)
    /\ sizeOp' = "mergeMaxSize"
    /\ UNCHANGED <<lits, sortVars, genVars>>

\* The merge loop of policies/generator.go over lits
CallMergeMaxSizePtr ==
    /\ sizeOp = "none"
    /\ sizeOut' = mergeMaxSizePtr(lits, <<>>)
    /\ sizeOp' = "mergeMaxSizePtr"
    /\ UNCHANGED <<lits, sortVars, genVars>>

NextSize ==
    \/ CallParseSizeToBytes
    \/ CallGetMaxSize
    \/ CallGetMaxSizePtr
    \/ CallMergeMaxSize
    \/ CallMergeMaxSizePtr

SpecSize == InitSize /\ [][NextSize]_vars

(***************************************************************************)
(* Inputs of the generators                                                *)
(***************************************************************************)

MaxPols == 2
MaxMatchRules == 2
MaxGenerators == 2

\* A *Duration, a *int32 (as it prints), a *ClientBody, a *ClientKeepAlive.
Set(v) == [isNil |-> FALSE, val |-> v]
Unset == [isNil |-> TRUE, val |-> <<>>]

Body(maxSize, timeout) == [isNil |-> FALSE, MaxSize |-> maxSize, Timeout |-> timeout]

KeepAlive(requests, time, timeout) ==
    [isNil |-> FALSE, Requests |-> requests, Time |-> time, Timeout |-> timeout]

KeepAliveTimeout(server, header) == [isNil |-> FALSE, Server |-> server, Header |-> header]

ClientSettingsPolicy(ns, name, body, keepAlive) ==
    [Type |-> "ClientSettingsPolicy", Kind |-> ClientSettingsPolicyStr,
     Namespace |-> ns, Name |-> name,
     Spec |-> [Body |-> body, KeepAlive |-> keepAlive]]

\* A policy of another kind: the type assertion of the generator fails on it.
OtherPolicy(ns, name) ==
    [Type |-> "OtherPolicy", Kind |-> <<"O">>, Namespace |-> ns, Name |-> name]

TenSeconds == <<"1", "0", "s">>

\* The policies attached to the locations of clientsettings/generator.go:
\* maximum sizes of the grammar, malformed ones, an empty one, none, and a
\* policy that sets nothing.
LocationPolicySet ==
    { ClientSettingsPolicy(<<"a">>, <<"x">>, Body(PtrTo(<<"1", "k">>), Unset), NilPtr),
      ClientSettingsPolicy(<<"a">>, <<"y">>, Body(PtrTo(<<"2", "0", "4", "8">>), Set(TenSeconds)), NilPtr),
      ClientSettingsPolicy(<<"b">>, <<"x">>, Body(PtrTo(<<"1", "2", "3", "4", "5">>), Unset), NilPtr),
      ClientSettingsPolicy(<<"b">>, <<"y">>, Body(PtrTo(<<"1", "x">>), Unset), NilPtr),
      ClientSettingsPolicy(<<"b">>, <<"a">>, Body(PtrTo(<<"k">>), Unset), NilPtr),
      ClientSettingsPolicy(<<"a">>, <<"b">>, Body(PtrTo(<<>>), Unset), NilPtr),
      ClientSettingsPolicy(<<"a">>, <<"a">>, Body(NilSize, Set(TenSeconds)), NilPtr),
      ClientSettingsPolicy(<<"b">>, <<"b">>, NilPtr,
          KeepAlive(Set(<<"1", "0">>), Unset, KeepAliveTimeout(Set(TenSeconds), Unset))),
      ClientSettingsPolicy(<<"c">>, <<"c">>, NilPtr, NilPtr),
      OtherPolicy(<<"a">>, <<"x">>) }

LocationSet ==
    [Type : {"ExternalLocationType", "RedirectLocationType"},
     HTTPMatchKey : {<<"1", "_", "0">>, <<"1", "_", "1">>}]

SeqsUpTo(S, n) == UNION { [1..k -> S] : k \in 0..n }

LocationInputs ==
    { [kind |-> "location", pols |-> ps, location |-> loc] :
        ps \in SeqsUpTo(LocationPolicySet, MaxPols), loc \in LocationSet }

\* The http.Server of GenerateForServer(pols, server), which does not read it.
HTTPServerInputs ==
    { [kind |-> "httpServer", pols |-> ps, server |-> [IsDefaultHTTP |-> FALSE]] :
        ps \in SeqsUpTo(LocationPolicySet, MaxPols) }

\* The policies attached to the dataplane scopes of policies/generator.go.
ScopePolicySet ==
    { ClientSettingsPolicy(<<"a">>, <<"x">>, Body(PtrTo(<<"1", "k">>), Unset), NilPtr),
      ClientSettingsPolicy(<<"a">>, <<"y">>, Body(PtrTo(<<"5">>), Set(TenSeconds)), NilPtr),
      ClientSettingsPolicy(<<"b">>, <<"x">>, Body(PtrTo(<<"5">>), Unset), NilPtr),
      ClientSettingsPolicy(<<"b">>, <<"b">>, NilPtr,
          KeepAlive(Set(<<"1", "0">>), Unset, KeepAliveTimeout(Set(TenSeconds), Unset))),
      ClientSettingsPolicy(<<"c">>, <<"c">>, NilPtr, NilPtr),
      OtherPolicy(<<"a">>, <<"x">>) }

PolicySeqs == SeqsUpTo(ScopePolicySet, MaxPols)

ServerInputs == { [kind |-> "server", server |-> [Policies |-> ps]] : ps \in PolicySeqs }

MatchRuleInputs == { [kind |-> "matchRule", rule |-> [Policies |-> ps]] : ps \in PolicySeqs }

\* The match rules of the path rules: no policy, one with a maximum size of
\* "1k", two different ones with "5", one without a Body, and a policy of
\* another kind before one with a maximum size.
MatchRuleSet ==
    { [Policies |-> <<>>],
      [Policies |-> <<ClientSettingsPolicy(<<"a">>, <<"x">>, Body(PtrTo(<<"1", "k">>), Unset), NilPtr)>>],
      [Policies |-> <<ClientSettingsPolicy(<<"a">>, <<"y">>, Body(PtrTo(<<"5">>), Set(TenSeconds)), NilPtr)>>],
      [Policies |-> <<ClientSettingsPolicy(<<"b">>, <<"x">>, Body(PtrTo(<<"5">>), Unset), NilPtr)>>],
      [Policies |-> <<ClientSettingsPolicy(<<"b">>, <<"b">>, NilPtr,
                         KeepAlive(Set(<<"1", "0">>), Unset, KeepAliveTimeout(Set(TenSeconds), Unset)))>>],
      [Policies |-> <<OtherPolicy(<<"a">>, <<"x">>),
                      ClientSettingsPolicy(<<"a">>, <<"x">>, Body(PtrTo(<<"1", "k">>), Unset), NilPtr)>>] }

PathTypes == { <<"p", "r", "e", "f", "i", "x">>, <<"e", "x", "a", "c", "t">> }
Paths == { <<"/">>, <<"/", "a", "b">>, <<"/", "a", "/", "b">> }

PathRuleInputs ==
    { [kind |-> "pathRule",
       rule |-> [PathType |-> pt, Path |-> path, MatchRules |-> mrs]] :
        pt \in PathTypes, path \in Paths, mrs \in SeqsUpTo(MatchRuleSet, MaxMatchRules) }

\* Match rules whose maximum sizes the unit comparison orders: "15" and "20",
\* "1m" before "1025k", and a Body without a maximum size.
MergeMatchRuleSet ==
    { [Policies |-> <<ClientSettingsPolicy(<<"a">>, <<"x">>, Body(PtrTo(<<"1", "5">>), Unset), NilPtr)>>],
      [Policies |-> <<ClientSettingsPolicy(<<"a">>, <<"y">>, Body(PtrTo(<<"2", "0">>), Unset), NilPtr)>>],
      [Policies |-> <<ClientSettingsPolicy(<<"b">>, <<"x">>, Body(NilSize, Set(TenSeconds)), NilPtr)>>],
      [Policies |-> <<ClientSettingsPolicy(<<"b">>, <<"y">>, Body(PtrTo(<<"1", "m">>), Unset), NilPtr),
                      ClientSettingsPolicy(<<"b">>, <<"b">>,
                          Body(PtrTo(<<"1", "0", "2", "5", "k">>), Unset), NilPtr)>>] }

MergePathRuleInputs ==
    { [kind |-> "pathRule",
       rule |-> [PathType |-> <<"p", "r", "e", "f", "i", "x">>, Path |-> <<"/">>,
                 MatchRules |-> mrs]] :
        mrs \in SeqsUpTo(MergeMatchRuleSet, MaxMatchRules) }

\* The ClientSettingsPolicySpecs the template is executed on: every field nil
\* or set, the maximum size also set to the empty Size.
FiveSeconds == <<"5", "s">>

BodySet ==
    {NilPtr} \cup { Body(m, t) : m \in {NilSize, PtrTo(<<>>), PtrTo(<<"1", "k">>)},
                                 t \in {Unset, Set(TenSeconds)} }

KeepAliveTimeoutSet ==
    {NilPtr} \cup { KeepAliveTimeout(srv, hdr) : srv \in {Unset, Set(TenSeconds)},
                                                 hdr \in {Unset, Set(FiveSeconds)} }

KeepAliveSet ==
    {NilPtr} \cup { KeepAlive(r, t, to) : r \in {Unset, Set(<<"1", "0">>)},
                                          t \in {Unset, Set(TenSeconds)},
                                          to \in KeepAliveTimeoutSet }

SpecSet == [Body : BodySet, KeepAlive : KeepAliveSet]

TemplateInputs == { [kind |-> "spec", spec |-> sp] : sp \in SpecSet }

\* The generators a composite is built from: the client-settings one and two
\* others.
GeneratorSet ==
    { [impl |-> "clientsettings.Generator", name |-> <<"c">>, count |-> 0],
      [impl |-> "other", name |-> <<"x">>, count |-> 1],
      [impl |-> "other", name |-> <<"y">>, count |-> 2] }

\* The generators a composite over GenerateResult is built from: the
\* client-settings one, whose KeyVals is nil, one that sets k1, one that sets
\* k1 and k2, and one that returns an empty map.
KeyValGeneratorSet ==
    { [impl |-> "clientsettings.Generator", name |-> <<"c">>, count |-> 0, keyVals |-> NilMap],
      [impl |-> "other", name |-> <<"x">>, count |-> 1,
       keyVals |-> MapOf({[key |-> "k1", val |-> "x"]})],
      [impl |-> "other", name |-> <<"y">>, count |-> 0,
       keyVals |-> MapOf({[key |-> "k1", val |-> "y"], [key |-> "k2", val |-> "y"]})],
      [impl |-> "other", name |-> <<"z">>, count |-> 1, keyVals |-> MapOf({})] }

(***************************************************************************)
(* Calls of the client-settings generator                                  *)
(***************************************************************************)

InitGen ==
    /\ gens = <<>>
    /\ scope \in LocationInputs \cup HTTPServerInputs \cup ServerInputs
                   \cup PathRuleInputs \cup MergePathRuleInputs \cup MatchRuleInputs
                   \cup TemplateInputs
    /\ genOp = "none"
    /\ genOut = Files(<<>>)
    /\ SortIdle
    /\ SizeIdle

\* Generator.GenerateForLocation of clientsettings/generator.go
CallGenerateForLocation ==
    /\ genOp = "none"
    /\ scope.kind = "location"
    /\ genOut' = GenerateForLocation(scope.pols, scope.location)
    /\ genOp' = "GenerateForLocation"
    /\ UNCHANGED <<gens, scope, sortVars, sizeVars>>

\* Generator.GenerateForInternalLocation of clientsettings/generator.go
CallGenerateForInternalLocation ==
    /\ genOp = "none"
    /\ scope.kind = "location"
    /\ genOut' = GenerateForInternalLocation(scope.pols, scope.location)
    /\ genOp' = "GenerateForInternalLocation"
    /\ UNCHANGED <<gens, scope, sortVars, sizeVars>>

\* Generator.GenerateForServer of clientsettings/generator.go
CallGenerateForHTTPServer ==
    /\ genOp = "none"
    /\ scope.kind = "httpServer"
    /\ genOut' = GenerateForHTTPServer(scope.pols, scope.server)
    /\ genOp' = "GenerateForHTTPServer"
    /\ UNCHANGED <<gens, scope, sortVars, sizeVars>>

\* Generator.GenerateForServer of policies/generator.go
CallGenerateForServer ==
    /\ genOp = "none"
    /\ scope.kind = "server"
    /\ genOut' = GenerateForServer(scope.server)
    /\ genOp' = "GenerateForServer"
    /\ UNCHANGED <<gens, scope, sortVars, sizeVars>>

\* Generator.GenerateForPathRule of policies/generator.go
CallGenerateForPathRule ==
    /\ genOp = "none"
    /\ scope.kind = "pathRule"
    /\ genOut' = GenerateForPathRule(scope.rule)
    /\ genOp' = "GenerateForPathRule"
    /\ UNCHANGED <<gens, scope, sortVars, sizeVars>>

\* Generator.GenerateForMatchRule of policies/generator.go
CallGenerateForMatchRule ==
    /\ genOp = "none"
    /\ scope.kind = "matchRule"
    /\ genOut' = GenerateForMatchRule(scope.rule)
    /\ genOp' = "GenerateForMatchRule"
    /\ UNCHANGED <<gens, scope, sortVars, sizeVars>>

\* helpers.MustExecuteTemplate(tmpl, csp.Spec)
CallMustExecuteTemplate ==
    /\ genOp = "none"
    /\ scope.kind = "spec"
    /\ genOut' = [panic |-> FALSE, content |-> clientSettingsTemplate(scope.spec)]
    /\ genOp' = "MustExecuteTemplate"
    /\ UNCHANGED <<gens, scope, sortVars, sizeVars>>

NextGen ==
    \/ CallGenerateForLocation
    \/ CallGenerateForInternalLocation
    \/ CallGenerateForHTTPServer
    \/ CallGenerateForServer
    \/ CallGenerateForPathRule
    \/ CallGenerateForMatchRule
    \/ CallMustExecuteTemplate

SpecGen == InitGen /\ [][NextGen]_vars

(***************************************************************************)
(* Calls of the CompositeGenerator                                         *)
(***************************************************************************)

\* NewCompositeGenerator(generators...)
InitComposite ==
    /\ gens \in SeqsUpTo(GeneratorSet, MaxGenerators)
    /\ scope \in ServerInputs \cup PathRuleInputs \cup MatchRuleInputs
    /\ genOp = "none"
    /\ genOut = NoResults
    /\ SortIdle
    /\ SizeIdle

CallCompositeGenerateForServer ==
    /\ genOp = "none"
    /\ scope.kind = "server"
    /\ genOut' = CompositeGenerateForServer(gens, scope.server)
    /\ genOp' = "GenerateForServer"
    /\ UNCHANGED <<gens, scope, sortVars, sizeVars>>

CallCompositeGenerateForPathRule ==
    /\ genOp = "none"
    /\ scope.kind = "pathRule"
    /\ genOut' = CompositeGenerateForPathRule(gens, scope.rule)
    /\ genOp' = "GenerateForPathRule"
    /\ UNCHANGED <<gens, scope, sortVars, sizeVars>>

CallCompositeGenerateForMatchRule ==
    /\ genOp = "none"
    /\ scope.kind = "matchRule"
    /\ genOut' = CompositeGenerateForMatchRule(gens, scope.rule)
    /\ genOp' = "GenerateForMatchRule"
    /\ UNCHANGED <<gens, scope, sortVars, sizeVars>>

\* The three filters on the result of a composite call for a location.
FilterLocationResult ==
    /\ genOp \in {"GenerateForPathRule", "GenerateForMatchRule"}
    /\ ~genOut.panic
    /\ genOut' = [panic |-> FALSE, files |-> genOut.files, calls |-> genOut.calls,
                  internal |-> ForInternalLocation(genOut.files),
                  external |-> ForExternalLocation(genOut.files),
                  externalRedirect |-> ForExternalRedirectLocation(genOut.files)]
    /\ genOp' = "ForLocation"
    /\ UNCHANGED <<gens, scope, sortVars, sizeVars>>

NextComposite ==
    \/ CallCompositeGenerateForServer
    \/ CallCompositeGenerateForPathRule
    \/ CallCompositeGenerateForMatchRule
    \/ FilterLocationResult

SpecComposite == InitComposite /\ [][NextComposite]_vars

(***************************************************************************)
(* Calls of the CompositeGenerator over GenerateResult                     *)
(***************************************************************************)

\* NewCompositeGenerator(generators...) of the Generator over policies
InitKeyVals ==
    /\ gens \in SeqsUpTo(KeyValGeneratorSet, MaxGenerators)
    /\ scope \in LocationInputs \cup HTTPServerInputs
    /\ genOp = "none"
    /\ genOut = ZeroGenerateResult
    /\ SortIdle
    /\ SizeIdle

CallCompositeGenerateForInternalLocation ==
    /\ genOp = "none"
    /\ scope.kind = "location"
    /\ genOut' = CompositeGenerateForInternalLocation(gens, scope.pols, scope.location)
    /\ genOp' = "GenerateForInternalLocation"
    /\ UNCHANGED <<gens, scope, sortVars, sizeVars>>

CallCompositeGenerateForHTTPServer ==
    /\ genOp = "none"
    /\ scope.kind = "httpServer"
    /\ genOut' = CompositeGenerateForHTTPServer(gens, scope.pols, scope.server)
    /\ genOp' = "GenerateForServer"
    /\ UNCHANGED <<gens, scope, sortVars, sizeVars>>

CallCompositeGenerateForLocation ==
    /\ genOp = "none"
    /\ scope.kind = "location"
    /\ genOut' = CompositeGenerateForLocation(gens, scope.pols, scope.location)
    /\ genOp' = "GenerateForLocation"
    /\ UNCHANGED <<gens, scope, sortVars, sizeVars>>

NextKeyVals ==
    \/ CallCompositeGenerateForInternalLocation
    \/ CallCompositeGenerateForHTTPServer
    \/ CallCompositeGenerateForLocation

SpecKeyVals == InitKeyVals /\ [][NextKeyVals]_vars

(***************************************************************************)
(* Properties of the precedence resolver (checked under SpecSort)          *)
(***************************************************************************)

Key(r) == getResourceKey(r.Source)

DistinctKeys(a, b) == Key(a) # Key(b)

\* Neither entry has priority over the other.
Tied(a, b) == ~higherPriority(a, b) /\ ~higherPriority(b, a)

Count(s, r) == Cardinality({k \in DOMAIN s : s[k] = r})

\* The entries of a slice are told apart by MatchIdx, so a position is unique.
Pos(s, r) == CHOOSE k \in DOMAIN s : s[k] = r

AX(ts) == [Namespace |-> <<"a">>, Name |-> <<"x">>, CreationTimestamp |-> ts]
AY(ts) == [Namespace |-> <<"a">>, Name |-> <<"y">>, CreationTimestamp |-> ts]
ADashX(ts) == [Namespace |-> <<"a", "-">>, Name |-> <<"x">>, CreationTimestamp |-> ts]

\* C1: for routes with distinct namespace/name keys exactly one of
\* higherPriority(a, b) and higherPriority(b, a) is true, higherPriority is
\* transitive over them, and in the output of sortRoutes every earlier such
\* route has priority over every later one (a strict total order, no tie).
C1_StrictTotalOrder ==
    /\ \A i, j \in DOMAIN routes :
          DistinctKeys(routes[i], routes[j]) =>
              (higherPriority(routes[i], routes[j]) # higherPriority(routes[j], routes[i]))
    /\ \A i, j, k \in DOMAIN routes :
          ( /\ DistinctKeys(routes[i], routes[j])
            /\ DistinctKeys(routes[j], routes[k])
            /\ DistinctKeys(routes[i], routes[k])
            /\ higherPriority(routes[i], routes[j])
            /\ higherPriority(routes[j], routes[k]) )
          => higherPriority(routes[i], routes[k])
    /\ sortPc = "sorted" =>
          \A i, j \in DOMAIN routes :
              (i < j /\ DistinctKeys(routes[i], routes[j])) =>
                  /\ higherPriority(routes[i], routes[j])
                  /\ ~higherPriority(routes[j], routes[i])

\* Three routes of three objects with one timestamp and equal counts, sorted
\* into an order the input did not have.
C1_Witness ==
    /\ sortPc = "sorted"
    /\ Len(routes) = 3
    /\ routes # input
    /\ \A i, j \in DOMAIN routes :
          i # j =>
              /\ DistinctKeys(routes[i], routes[j])
              /\ routes[i].Headers = routes[j].Headers
              /\ routes[i].QueryParams = routes[j].QueryParams
              /\ routes[i].Source.CreationTimestamp = routes[j].Source.CreationTimestamp

\* C2: sortRoutes is a stable sort: the output is a permutation of the input,
\* no later entry has priority over an earlier one, and two entries of which
\* neither has priority over the other keep the order they had in the input.
C2_StableSort ==
    sortPc = "sorted" =>
        /\ Len(routes) = Len(input)
        /\ \A k \in DOMAIN input : Count(routes, input[k]) = Count(input, input[k])
        /\ \A i, j \in DOMAIN routes : i < j => ~higherPriority(routes[j], routes[i])
        /\ \A i, j \in DOMAIN input :
              (i < j /\ Tied(input[i], input[j])) =>
                  Pos(routes, input[i]) < Pos(routes, input[j])

\* Two matches of one route with equal counts, and a third entry that the sort
\* moved in front of both.
C2_Witness ==
    /\ sortPc = "sorted"
    /\ Len(input) = 3
    /\ input[1].Source = input[2].Source
    /\ Tied(input[1], input[2])
    /\ higherPriority(input[3], input[1])
    /\ routes = <<input[3], input[1], input[2]>>

\* C3: in the output of sortRoutes a route with more header matches precedes
\* every route with fewer, whatever the query-parameter counts, timestamps and
\* names; among equal header counts, more query-parameter matches come first.
C3_CountsDecideFirst ==
    sortPc = "sorted" =>
        \A i, j \in DOMAIN routes :
            /\ routes[i].Headers > routes[j].Headers => i < j
            /\ ( /\ routes[i].Headers = routes[j].Headers
                 /\ routes[i].QueryParams > routes[j].QueryParams ) => i < j

\* A route with more headers but fewer query parameters, a later timestamp and
\* a larger key than another, which stood behind it in the input.
C3_Witness ==
    /\ sortPc = "sorted"
    /\ \E i, j \in DOMAIN input :
          /\ i < j
          /\ input[j].Headers > input[i].Headers
          /\ input[j].QueryParams < input[i].QueryParams
          /\ input[j].Source = AY(1)
          /\ input[i].Source = AX(0)
          /\ Pos(routes, input[j]) < Pos(routes, input[i])

\* C4: of two routes with equal header and query-parameter counts the one
\* created earlier sorts first; with equal timestamps the one with the smaller
\* "namespace/name" string sorts first (a/x before a/y, a-/x before a/x); the
\* name is consulted only when the timestamps are equal (an older a/y comes
\* before a newer a/x).
C4_TimestampThenName ==
    \A i, j \in DOMAIN routes :
        ( /\ routes[i].Headers = routes[j].Headers
          /\ routes[i].QueryParams = routes[j].QueryParams ) =>
            /\ routes[i].Source.CreationTimestamp < routes[j].Source.CreationTimestamp
                  => ( /\ higherPriority(routes[i], routes[j])
                       /\ ~higherPriority(routes[j], routes[i])
                       /\ sortPc = "sorted" => i < j )
            /\ ( /\ routes[i].Source.CreationTimestamp = routes[j].Source.CreationTimestamp
                 /\ StringLess(Key(routes[i]), Key(routes[j])) )
                  => ( /\ higherPriority(routes[i], routes[j])
                       /\ ~higherPriority(routes[j], routes[i])
                       /\ sortPc = "sorted" => i < j )
            /\ \A ts \in Timestamps :
                  /\ ( /\ sortPc = "sorted"
                       /\ routes[i].Source = AX(ts)
                       /\ routes[j].Source = AY(ts) ) => i < j
                  /\ ( /\ sortPc = "sorted"
                       /\ routes[i].Source = ADashX(ts)
                       /\ routes[j].Source = AX(ts) ) => i < j
            /\ ( /\ sortPc = "sorted"
                 /\ routes[i].Source = AY(0)
                 /\ routes[j].Source = AX(1) ) => i < j

\* a/x and a-/x (both newer) and a/y (older) with equal counts, given in that
\* order and sorted into a/y, a-/x, a/x.
C4_Witness ==
    /\ sortPc = "sorted"
    /\ Len(input) = 3
    /\ input[1].Source = AX(1) /\ input[2].Source = ADashX(1) /\ input[3].Source = AY(0)
    /\ \A i, j \in DOMAIN input :
          /\ input[i].Headers = input[j].Headers
          /\ input[i].QueryParams = input[j].QueryParams
    /\ routes = <<input[3], input[2], input[1]>>

(***************************************************************************)
(* Properties of the size functions (checked under SpecSize)               *)
(***************************************************************************)

LowerUnitOf(s) == ToLower(IF s # <<>> /\ ~IsDigitChar(s[Len(s)]) THEN LastChar(s) ELSE <<>>)
DigitsOf(s) == IF s # <<>> /\ ~IsDigitChar(s[Len(s)]) THEN ButLast(s) ELSE s

\* <1 to 4 digits><optional unit k, m or g>
InGrammar(s) ==
    /\ Len(DigitsOf(s)) \in 1..4
    /\ AllDigits(DigitsOf(s))
    /\ s = DigitsOf(s) \/ LastChar(s) \in Units

\* The same with the unit in either letter case.
InGrammarAnyCase(s) ==
    /\ Len(DigitsOf(s)) \in 1..4
    /\ AllDigits(DigitsOf(s))
    /\ s = DigitsOf(s) \/ LastChar(s) \in Units \cup UpperUnits

UnitFactor(u) ==
    CASE u = <<>> -> 1
      [] u = <<"k">> -> 1024
      [] u = <<"m">> -> 1024 * 1024
      [] u = <<"g">> -> 1024 * 1024 * 1024

\* The byte count of a literal of the grammar: integer times 1, 1024, 1024^2
\* or 1024^3.
ByteCount(s) == MulInt64(ToInt64(DecimalValue(DigitsOf(s))), ToInt64(UnitFactor(LowerUnitOf(s))))

MaxBytes(a, b) == IF GreaterInt64(a, b) THEN a ELSE b

\* What a merge came to: a panic, or the byte count of the literal returned.
Outcome(r) ==
    IF r.panic \/ ~InGrammar(r.val)
    THEN [panic |-> r.panic, bytes |-> ToInt64(0), literal |-> r.val]
    ELSE [panic |-> FALSE, bytes |-> ByteCount(r.val), literal |-> <<>>]

Lit(i) == lits[i].val

BothValid == Len(lits) = 2 /\ \A i \in 1..2 : ~lits[i].isNil /\ InGrammar(Lit(i))

IsPair(a, b) == Len(lits) = 2 /\ lits[1] = PtrTo(a) /\ lits[2] = PtrTo(b)

\* C5: for every pair of literals of the grammar, each getMaxSize returns a
\* literal whose byte count is the greater of the two byte counts:
\* ("1k","1m") gives "1m", ("10","1k") gives "1k", "2048" wins against "1k"
\* and "1025k" against "1m". (A call that panics returns nothing: see C20.)
C5_GreatestByteCount ==
    (sizeOp \in {"getMaxSize", "getMaxSizePtr"} /\ BothValid /\ ~sizeOut.panic) =>
        /\ sizeOut.val \in {Lit(1), Lit(2)}
        /\ ByteCount(sizeOut.val) = MaxBytes(ByteCount(Lit(1)), ByteCount(Lit(2)))
        /\ IsPair(<<"1", "k">>, <<"1", "m">>) => sizeOut.val = <<"1", "m">>
        /\ IsPair(<<"1", "0">>, <<"1", "k">>) => sizeOut.val = <<"1", "k">>
        /\ IsPair(<<"2", "0", "4", "8">>, <<"1", "k">>) => sizeOut.val = <<"2", "0", "4", "8">>
        /\ IsPair(<<"1", "0", "2", "5", "k">>, <<"1", "m">>) => sizeOut.val = <<"1", "0", "2", "5", "k">>

\* The parsing getMaxSize of clientsettings/generator.go alone does what C5
\* says, and never panics on literals of the grammar.
ParsingGetMaxSizeIsGreatest ==
    (sizeOp = "getMaxSize" /\ BothValid) =>
        /\ ~sizeOut.panic
        /\ sizeOut.val \in {Lit(1), Lit(2)}
        /\ ByteCount(sizeOut.val) = MaxBytes(ByteCount(Lit(1)), ByteCount(Lit(2)))

AllValid == \A i \in DOMAIN lits : ~lits[i].isNil /\ InGrammar(Lit(i))

Perms(n) == { f \in [1..n -> 1..n] : \A i, j \in 1..n : f[i] = f[j] => i = j }

Permuted(s, f) == [i \in DOMAIN s |-> s[f[i]]]

\* C6: the merge is order-independent in byte value: getMaxSize(a, b) and
\* getMaxSize(b, a) come to the same byte count for literals of the grammar,
\* and so does the merge of every permutation of a sequence of them.
C6_OrderIndependent ==
    /\ (sizeOp = "getMaxSize" /\ BothValid) =>
          Outcome(getMaxSize(Lit(2), Lit(1))) = Outcome(sizeOut)
    /\ (sizeOp = "getMaxSizePtr" /\ BothValid) =>
          Outcome(getMaxSizePtr(Lit(2), lits[1])) = Outcome(sizeOut)
    /\ (sizeOp = "mergeMaxSize" /\ AllValid) =>
          \A f \in Perms(Len(lits)) :
              Outcome(mergeMaxSize(Permuted(lits, f), <<>>)) = Outcome(sizeOut)
    /\ (sizeOp = "mergeMaxSizePtr" /\ AllValid) =>
          \A f \in Perms(Len(lits)) :
              Outcome(mergeMaxSizePtr(Permuted(lits, f), <<>>)) = Outcome(sizeOut)

\* The parsing getMaxSize alone is order-independent in byte value.
ParsingGetMaxSizeOrderIndependent ==
    /\ (sizeOp = "getMaxSize" /\ BothValid) =>
          Outcome(getMaxSize(Lit(2), Lit(1))) = Outcome(sizeOut)
    /\ (sizeOp = "mergeMaxSize" /\ AllValid) =>
          \A f \in Perms(Len(lits)) :
              Outcome(mergeMaxSize(Permuted(lits, f), <<>>)) = Outcome(sizeOut)

\* An absent value: the empty Size, or a nil *Size.
Absent(p) == p.isNil \/ p.val = <<>>

\* C7: an absent size is the identity of the merge: with an empty accumulator
\* and a literal x the merge returns x, with accumulator x and an absent (empty
\* or nil) second value it returns x, and two absent values give the empty
\* value.
C7_AbsentIsIdentity ==
    (sizeOp \in {"getMaxSize", "getMaxSizePtr"} /\ Len(lits) = 2) =>
        /\ (Lit(1) = <<>> /\ ~Absent(lits[2])) => sizeOut = Returned(Lit(2))
        /\ (Lit(1) # <<>> /\ Absent(lits[2])) => sizeOut = Returned(Lit(1))
        /\ (Lit(1) = <<>> /\ Absent(lits[2])) => sizeOut = Returned(<<>>)

\* The parsing getMaxSize alone has the empty Size as its identity.
ParsingGetMaxSizeIdentity ==
    (sizeOp = "getMaxSize" /\ Len(lits) = 2) =>
        /\ (Lit(1) = <<>> /\ ~Absent(lits[2])) => sizeOut = Returned(Lit(2))
        /\ (Lit(1) # <<>> /\ Absent(lits[2])) => sizeOut = Returned(Lit(1))
        /\ (Lit(1) = <<>> /\ Absent(lits[2])) => sizeOut = Returned(<<>>)

\* The pointer getMaxSize has nil, and the empty accumulator, as its identity.
PointerGetMaxSizeNilIdentity ==
    (sizeOp = "getMaxSizePtr" /\ Len(lits) = 2) =>
        /\ (Lit(1) = <<>> /\ ~lits[2].isNil) => sizeOut = Returned(Lit(2))
        /\ lits[2].isNil => sizeOut = Returned(Lit(1))

FitsInt64(n) == ~NegInt64(n)

\* C9: parseSizeToBytes accepts exactly the literals of 1 to 4 digits and an
\* optional unit k, m or g in either letter case, returns integer times 1,
\* 1024, 1024^2 or 1024^3 ("1K" gives 1024 like "1k"), which fits an int64,
\* and returns an error for every other string.
C9_ParseGrammar ==
    sizeOp = "parseSizeToBytes" =>
        IF InGrammarAnyCase(Lit(1))
        THEN /\ ~sizeOut.err
             /\ sizeOut.bytes = ByteCount(Lit(1))
             /\ FitsInt64(sizeOut.bytes)
        ELSE sizeOut.err

\* parseSizeToBytes does what C9 says on the lower-case units.
ParseLowerCaseGrammar ==
    sizeOp = "parseSizeToBytes" =>
        IF InGrammar(Lit(1))
        THEN /\ ~sizeOut.err
             /\ sizeOut.bytes = ByteCount(Lit(1))
             /\ FitsInt64(sizeOut.bytes)
             /\ Lit(1) = <<"9", "9", "9", "9", "g">> =>
                   sizeOut.bytes = <<0, 0, 0, 783, 9, 0, 0>>
        ELSE sizeOut.err

(***************************************************************************)
(* Properties of the client-settings generator (checked under SpecGen)     *)
(***************************************************************************)

\* A ClientSettingsPolicy whose Body.MaxSize is set to a literal that is not
\* of the grammar: more than 4 digits, an unknown unit, no digits.
HasMalformedMaxSize(pol) ==
    /\ IsClientSettingsPolicy(pol)
    /\ IsSet(pol.Spec.Body)
    /\ IsSet(pol.Spec.Body.MaxSize)
    /\ pol.Spec.Body.MaxSize.val # <<>>
    /\ ~InGrammar(pol.Spec.Body.MaxSize.val)

\* C8: when a policy of a path rule carries a malformed size literal,
\* GenerateForLocation returns (it does not panic) and no redirect file carries
\* the malformed literal as the merged maximum, also when it is the only
\* literal merged.
C8_MalformedLiteralIsAnError ==
    ( /\ genOp = "GenerateForLocation"
      /\ scope.location.Type # "ExternalLocationType"
      /\ \E i \in DOMAIN scope.pols : HasMalformedMaxSize(scope.pols[i]) )
    => /\ ~genOut.panic
       /\ \A i \in DOMAIN scope.pols :
             HasMalformedMaxSize(scope.pols[i]) =>
                 \A k \in DOMAIN genOut.files :
                     genOut.files[k].Content
                         # externalRedirectTemplate(scope.pols[i].Spec.Body.MaxSize.val)

\* With maximum sizes of the grammar only, GenerateForLocation returns, and
\* the redirect file carries one of them.
WellFormedLocationReturns ==
    ( /\ genOp = "GenerateForLocation"
      /\ \A i \in DOMAIN scope.pols : ~HasMalformedMaxSize(scope.pols[i]) )
    => ~genOut.panic

(***************************************************************************)
(* Properties of the CompositeGenerator (checked under SpecComposite)      *)
(***************************************************************************)

CompositeMethods == {"GenerateForServer", "GenerateForPathRule", "GenerateForMatchRule"}

ScopeInput == IF scope.kind = "server" THEN scope.server ELSE scope.rule

\* What each registered generator returns for the input of the composite call.
OwnOutput(i) == CallGenerator(gens[i], genOp, ScopeInput)

RECURSIVE FilesBefore(_)
FilesBefore(i) == IF i = 1 THEN 0 ELSE FilesBefore(i - 1) + Len(OwnOutput(i - 1).files)

\* C10: for each of GenerateForServer, GenerateForPathRule and
\* GenerateForMatchRule of the CompositeGenerator, the files returned are the
\* files each registered generator returns for the same input, in registration
\* order, none dropped, duplicated or reordered; every generator is called
\* once with the input of the composite call; without generators the result
\* is empty. (A generator that panics returns nothing, and neither does the
\* composite call.)
C10_Concatenation ==
    genOp \in CompositeMethods =>
        IF \A i \in DOMAIN gens : ~OwnOutput(i).panic
        THEN /\ ~genOut.panic
             /\ Len(genOut.files) = FilesBefore(Len(gens) + 1)
             /\ \A i \in DOMAIN gens :
                   \A k \in DOMAIN OwnOutput(i).files :
                       genOut.files[FilesBefore(i) + k] = OwnOutput(i).files[k]
             /\ genOut.calls = [i \in DOMAIN gens |-> <<i, ScopeInput>>]
             /\ gens = <<>> => genOut.files = <<>>
        ELSE genOut.panic

\* A composite of the client-settings generator and another one, called on a
\* match rule with one ClientSettingsPolicy: two files of the first, then two
\* of the second.
C10_Witness ==
    /\ genOp = "GenerateForMatchRule"
    /\ Len(gens) = 2
    /\ gens[1].impl = "clientsettings.Generator"
    /\ gens[2].impl = "other"
    /\ ~genOut.panic
    /\ Len(genOut.files) = 4
    /\ genOut.files[1].Type = "Internal" /\ genOut.files[2].Type = "External"
    /\ genOut.files[3].Name # genOut.files[1].Name

(***************************************************************************)
(* Properties of the CompositeGenerator over GenerateResult (checked       *)
(* under SpecKeyVals)                                                      *)
(***************************************************************************)

PolicyCompositeMethods ==
    {"GenerateForInternalLocation", "GenerateForServer", "GenerateForLocation"}

PolicyScopeInput == IF scope.kind = "httpServer" THEN scope.server ELSE scope.location

\* What each registered generator returns for the input of the composite call.
OwnResult(i) == CallPolicyGenerator(gens[i], genOp, scope.pols, PolicyScopeInput)

\* The generators that set key k, and the last registered of them.
Setters(k) == { i \in DOMAIN gens : k \in MapKeys(OwnResult(i).KeyVals) }
LastSetter(k) == CHOOSE i \in Setters(k) : \A j \in Setters(k) : j <= i
ValueOf(m, k) == (CHOOSE e \in m.entries : e.key = k).val

\* C11: when the registered generators return key-value maps, the map the
\* composite returns holds every key set by a generator, with the value of the
\* generator registered last among those that set it, and the composite call
\* returns whenever a generator returns a map that is not empty.
C11_LastWriterWins ==
    ( /\ genOp \in PolicyCompositeMethods
      /\ \A i \in DOMAIN gens : ~OwnResult(i).panic )
    => /\ ~genOut.panic
       /\ \A i \in DOMAIN gens :
             \A k \in MapKeys(OwnResult(i).KeyVals) :
                 /\ k \in MapKeys(genOut.KeyVals)
                 /\ ValueOf(genOut.KeyVals, k) = ValueOf(OwnResult(LastSetter(k)).KeyVals, k)

\* What the composite does: it returns exactly when no generator panics and
\* no generator returns an entry, and the map it returns is nil.
CompositeKeyValsStayNil ==
    genOp \in PolicyCompositeMethods =>
        /\ genOut.panic <=>
              \E i \in DOMAIN gens :
                  OwnResult(i).panic \/ OwnResult(i).KeyVals.entries # {}
        /\ ~genOut.panic => genOut.KeyVals = NilMap

(***************************************************************************)
(* Failing generators (checked under SpecComposite)                        *)
(***************************************************************************)

RECURSIVE FilesOfReturning(_)
FilesOfReturning(i) ==
    IF i = 0 THEN <<>>
    ELSE FilesOfReturning(i - 1)
             \o (IF OwnOutput(i).panic THEN <<>> ELSE OwnOutput(i).files)

\* C12: when registered generators fail on the input and others do not, the
\* composite call returns, it has called every registered generator, and it
\* returns the files of the generators that did not fail, in registration
\* order.
C12_FailuresAggregated ==
    ( /\ genOp \in CompositeMethods
      /\ \E i \in DOMAIN gens : OwnOutput(i).panic
      /\ \E i \in DOMAIN gens : ~OwnOutput(i).panic )
    => /\ ~genOut.panic
       /\ genOut.calls = [i \in DOMAIN gens |-> <<i, ScopeInput>>]
       /\ genOut.files = FilesOfReturning(Len(gens))

\* What the composite does: the panic of a generator ends the composite call
\* at that generator, and the generators after it are not called.
CompositeStopsAtFirstPanic ==
    ( /\ genOp \in CompositeMethods
      /\ \E i \in DOMAIN gens : OwnOutput(i).panic )
    => /\ genOut.panic
       /\ LET first == CHOOSE i \in DOMAIN gens :
                           OwnOutput(i).panic /\ \A j \in 1..(i - 1) : ~OwnOutput(j).panic
          IN  Len(genOut.calls) = first

(***************************************************************************)
(* Properties of the files of the client-settings generator (checked       *)
(* under SpecGen)                                                          *)
(***************************************************************************)

GeneratorOps ==
    {"GenerateForServer", "GenerateForPathRule", "GenerateForMatchRule",
     "GenerateForHTTPServer", "GenerateForLocation", "GenerateForInternalLocation"}

\* The policies attached to the scope of the call, those of a path rule being
\* the policies of its match rules.
AttachedPolicies ==
    CASE scope.kind = "server" -> scope.server.Policies
      [] scope.kind = "matchRule" -> scope.rule.Policies
      [] scope.kind = "pathRule" ->
            Flatten([i \in DOMAIN scope.rule.MatchRules |-> scope.rule.MatchRules[i].Policies])
      [] scope.kind \in {"location", "httpServer"} -> scope.pols
      [] OTHER -> <<>>

AttachedCSPs ==
    SelectSeq(AttachedPolicies, LAMBDA pol : pol.Type = "ClientSettingsPolicy")

NoClientSettingsPolicy == AttachedCSPs = <<>>

PolicyWithoutSettingsHasFile ==
    ( /\ genOp \in {"GenerateForServer", "GenerateForHTTPServer"}
      /\ Len(AttachedCSPs) = 1
      /\ ~IsSet(AttachedCSPs[1].Spec.Body)
      /\ ~IsSet(AttachedCSPs[1].Spec.KeepAlive) )
    => /\ Len(genOut.files) = 1
       /\ genOut.files[1].Content = <<"\n">>

\* The maximum sizes set by the attached ClientSettingsPolicies, in order.
SetMaxSizes ==
    LET withSize == SelectSeq(AttachedCSPs,
                        LAMBDA pol : IsSet(pol.Spec.Body) /\ IsSet(pol.Spec.Body.MaxSize))
    IN  [i \in DOMAIN withSize |-> withSize[i].Spec.Body.MaxSize.val]

\* sizes[i] has the greatest byte count of sizes.
Greatest(sizes, i) ==
    \A j \in DOMAIN sizes : ~GreaterInt64(ByteCount(sizes[j]), ByteCount(sizes[i]))

RedirectCall ==
    \/ genOp = "GenerateForPathRule"
    \/ genOp = "GenerateForLocation" /\ scope.location.Type # "ExternalLocationType"

\* C14: on a path rule whose policies carry maximum sizes of the grammar,
\* GenerateForPathRule (and GenerateForLocation on the redirect location)
\* returns exactly one file, of type ExternalRedirect, when a
\* ClientSettingsPolicy of a match rule sets a maximum size, and no file
\* otherwise; the directive of the file carries a literal with the greatest
\* byte count of those maximum sizes.
C14_OneRedirectFile ==
    (RedirectCall /\ \A i \in DOMAIN SetMaxSizes : InGrammar(SetMaxSizes[i])) =>
        IF SetMaxSizes = <<>>
        THEN genOut = Files(<<>>)
        ELSE /\ ~genOut.panic
             /\ Len(genOut.files) = 1
             /\ genOp = "GenerateForPathRule" => genOut.files[1].Type = "ExternalRedirect"
             /\ \E i \in DOMAIN SetMaxSizes :
                   /\ Greatest(SetMaxSizes, i)
                   /\ genOut.files[1].Content = externalRedirectTemplate(SetMaxSizes[i])

\* GenerateForLocation of clientsettings/generator.go alone does what C14
\* says.
ParsingRedirectFile ==
    ( /\ genOp = "GenerateForLocation"
      /\ scope.location.Type # "ExternalLocationType"
      /\ \A i \in DOMAIN SetMaxSizes : InGrammar(SetMaxSizes[i]) )
    => IF SetMaxSizes = <<>>
       THEN genOut = Files(<<>>)
       ELSE /\ ~genOut.panic
            /\ Len(genOut.files) = 1
            /\ \E i \in DOMAIN SetMaxSizes :
                  /\ Greatest(SetMaxSizes, i)
                  /\ genOut.files[1].Content = externalRedirectTemplate(SetMaxSizes[i])

\* When it returns, GenerateForPathRule returns no file exactly when no
\* maximum size of the grammar is set, and one file of type ExternalRedirect
\* otherwise.
PathRuleFileCount ==
    ( /\ genOp = "GenerateForPathRule"
      /\ ~genOut.panic
      /\ \A i \in DOMAIN SetMaxSizes : InGrammar(SetMaxSizes[i]) ) =>
        /\ Len(genOut.files) = (IF SetMaxSizes = <<>> THEN 0 ELSE 1)
        /\ \A k \in DOMAIN genOut.files : genOut.files[k].Type = "ExternalRedirect"

\* <PolicyKind>_<Namespace>_<Name>_<scope-suffix>.conf
NameOf(pol, suffix) ==
    pol.Kind \o <<"_">> \o pol.Namespace \o <<"_">> \o pol.Name \o <<"_">> \o suffix \o ConfStr

ServerSuffix == <<"s", "e", "r", "v", "e", "r">>
IntSuffix == <<"i", "n", "t">>
ExtSuffix == <<"e", "x", "t">>
RedirectSuffix == <<"r", "e", "d", "i", "r", "e", "c", "t">>

\* C15: GenerateForMatchRule returns, for every ClientSettingsPolicy of the
\* match rule and in attachment order, two files, the first of type Internal
\* and the second of type External, with the same content; no file of type
\* ExternalRedirect and none for a policy of another kind: twice as many files
\* as the rule has ClientSettingsPolicies.
C15_TwoFilesPerPolicy ==
    genOp = "GenerateForMatchRule" =>
        /\ ~genOut.panic
        /\ Len(genOut.files) = 2 * Len(AttachedCSPs)
        /\ \A i \in DOMAIN AttachedCSPs :
              LET int == genOut.files[2 * i - 1]
                  ext == genOut.files[2 * i]
              IN  /\ int.Type = "Internal"
                  /\ ext.Type = "External"
                  /\ int.Content = ext.Content
                  /\ int.Name = NameOf(AttachedCSPs[i], IntSuffix)
                  /\ ext.Name = NameOf(AttachedCSPs[i], ExtSuffix)
        /\ \A k \in DOMAIN genOut.files : genOut.files[k].Type # "ExternalRedirect"

\* A match rule with two different ClientSettingsPolicies of different
\* content: four files.
C15_Witness ==
    /\ genOp = "GenerateForMatchRule"
    /\ Len(AttachedCSPs) = 2
    /\ AttachedCSPs[1].Name # AttachedCSPs[2].Name
    /\ Len(genOut.files) = 4
    /\ genOut.files[1].Content # genOut.files[3].Content
    /\ genOut.files[3].Type = "Internal"

\* A rule with a policy of another kind before a ClientSettingsPolicy: the two
\* files of the ClientSettingsPolicy.
OtherKindHasNoFile ==
    ( /\ genOp = "GenerateForMatchRule"
      /\ Len(AttachedPolicies) = 2
      /\ Len(AttachedCSPs) = 1 )
    => Len(genOut.files) = 2

\* The suffix the scope of a file fixes.
SuffixOf(file) ==
    CASE genOp \in {"GenerateForServer", "GenerateForHTTPServer"} -> ServerSuffix
      [] genOp = "GenerateForInternalLocation" -> IntSuffix
      [] genOp = "GenerateForLocation" ->
            IF scope.location.Type = "ExternalLocationType" THEN ExtSuffix ELSE RedirectSuffix
      [] OTHER ->
            CASE file.Type = "Internal" -> IntSuffix
              [] file.Type = "External" -> ExtSuffix
              [] file.Type = "ExternalRedirect" -> RedirectSuffix

\* C16: every file of the client-settings generator is named
\* <PolicyKind>_<Namespace>_<Name>_<scope-suffix>.conf after an attached
\* ClientSettingsPolicy, with the suffix server for the files of
\* GenerateForServer, int for Internal files, ext for External files and
\* redirect for ExternalRedirect files.
C16_FileNames ==
    (genOp \in GeneratorOps /\ ~genOut.panic) =>
        \A k \in DOMAIN genOut.files :
            \E i \in DOMAIN AttachedCSPs :
                genOut.files[k].Name = NameOf(AttachedCSPs[i], SuffixOf(genOut.files[k]))

\* The files of the internal and the external location, and the server files
\* of clientsettings/generator.go, are named as C16 says.
PolicyFileNames ==
    ( /\ genOp \in {"GenerateForMatchRule", "GenerateForHTTPServer",
                    "GenerateForInternalLocation", "GenerateForLocation"}
      /\ genOp = "GenerateForLocation" => scope.location.Type = "ExternalLocationType" )
    => \A k \in DOMAIN genOut.files :
           \E i \in DOMAIN AttachedCSPs :
               genOut.files[k].Name = NameOf(AttachedCSPs[i], SuffixOf(genOut.files[k]))

Names(files) == { files[k].Name : k \in DOMAIN files }

\* C17: the redirect files of two path rules that differ in path type or path
\* have different names ("/a/b" and "/ab" of one path type among them), the
\* files of one server or match rule for different policies have different
\* names, and so have the files of a match rule and of the server.
C17_CollisionFree ==
    /\ (genOp = "GenerateForPathRule" /\ ~genOut.panic) =>
          \A pt \in PathTypes, path \in Paths :
              <<pt, path>> # <<scope.rule.PathType, scope.rule.Path>> =>
                  LET other == GenerateForPathRule(
                                   [scope.rule EXCEPT !.PathType = pt, !.Path = path])
                  IN  ~other.panic => Names(genOut.files) \cap Names(other.files) = {}
    /\ genOp = "GenerateForServer" =>
          \A k, l \in DOMAIN genOut.files :
              AttachedCSPs[k] # AttachedCSPs[l] => genOut.files[k].Name # genOut.files[l].Name
    /\ genOp = "GenerateForMatchRule" =>
          /\ \A k, l \in DOMAIN genOut.files :
                k # l /\ AttachedCSPs[(k + 1) \div 2] # AttachedCSPs[(l + 1) \div 2]
                    => genOut.files[k].Name # genOut.files[l].Name
          /\ \A k \in 1..(Len(genOut.files) \div 2) :
                genOut.files[2 * k - 1].Name # genOut.files[2 * k].Name
          /\ Names(genOut.files)
                 \cap Names(GenerateForServer([Policies |-> scope.rule.Policies]).files) = {}

\* Path rules whose paths differ after the slashes are removed, or whose path
\* types differ, have redirect files of different names.
RedirectNamesDifferWithoutSlashes ==
    (genOp = "GenerateForPathRule" /\ ~genOut.panic) =>
        \A pt \in PathTypes, path \in Paths :
            ( \/ pt # scope.rule.PathType
              \/ SelectSeq(path, LAMBDA c : c # "/")
                     # SelectSeq(scope.rule.Path, LAMBDA c : c # "/") ) =>
                LET other == GenerateForPathRule(
                                 [scope.rule EXCEPT !.PathType = pt, !.Path = path])
                IN  ~other.panic => Names(genOut.files) \cap Names(other.files) = {}

(***************************************************************************)
(* Properties of the template (checked under SpecGen)                      *)
(***************************************************************************)

Occurrences(content, chunk) == Cardinality({ k \in DOMAIN content : content[k] = chunk })

HasSubSeq(content, sub) ==
    \E k \in 0..(Len(content) - Len(sub)) : SubSeq(content, k + 1, k + Len(sub)) = sub

ServerTimeoutSet ==
    /\ IsSet(scope.spec.KeepAlive)
    /\ IsSet(scope.spec.KeepAlive.Timeout)
    /\ IsSet(scope.spec.KeepAlive.Timeout.Server)

HeaderTimeoutSet ==
    /\ IsSet(scope.spec.KeepAlive)
    /\ IsSet(scope.spec.KeepAlive.Timeout)
    /\ IsSet(scope.spec.KeepAlive.Timeout.Header)

\* The keep-alive timeout directive with two parameters, and with one.
TwoParameters ==
    <<"\nkeepalive_timeout ">> \o scope.spec.KeepAlive.Timeout.Server.val \o <<" ">>
        \o scope.spec.KeepAlive.Timeout.Header.val \o <<";">>
OneParameter ==
    <<"\nkeepalive_timeout ">> \o scope.spec.KeepAlive.Timeout.Server.val \o <<";">>

KeepAliveTimeoutAsClaimed ==
    /\ Occurrences(genOut.content, "\nkeepalive_timeout ")
           = (IF ServerTimeoutSet THEN 1 ELSE 0)
    /\ (ServerTimeoutSet /\ HeaderTimeoutSet) => HasSubSeq(genOut.content, TwoParameters)
    /\ (ServerTimeoutSet /\ ~HeaderTimeoutSet) => HasSubSeq(genOut.content, OneParameter)

MaxSizeSetAndNotEmpty ==
    /\ IsSet(scope.spec.Body)
    /\ IsSet(scope.spec.Body.MaxSize)
    /\ scope.spec.Body.MaxSize.val # <<>>

\* C18: the template emits keepalive_timeout with two parameters exactly when
\* the server and the header timeout are set, with the server parameter alone
\* exactly when only the server timeout is set, and not at all when neither or
\* only the header timeout is set; it emits client_max_body_size exactly when
\* the maximum size is set and not empty.
C18_TemplateDirectives ==
    genOp = "MustExecuteTemplate" =>
        /\ KeepAliveTimeoutAsClaimed
        /\ Occurrences(genOut.content, "\nclient_max_body_size ")
               = (IF MaxSizeSetAndNotEmpty THEN 1 ELSE 0)

\* The keep-alive timeout directive is emitted as C18 says.
KeepAliveTimeoutDirective ==
    genOp = "MustExecuteTemplate" => KeepAliveTimeoutAsClaimed

\* client_max_body_size is emitted exactly when the pointer MaxSize is not
\* nil, with the empty Size too.
MaxSizeDirectiveWhenNotNil ==
    genOp = "MustExecuteTemplate" =>
        Occurrences(genOut.content, "\nclient_max_body_size ")
            = (IF IsSet(scope.spec.Body) /\ IsSet(scope.spec.Body.MaxSize) THEN 1 ELSE 0)

(***************************************************************************)
(* Properties of the filters (checked under SpecComposite)                 *)
(***************************************************************************)

LocationTypes == {"Internal", "External", "ExternalRedirect"}

\* The result the filters were applied to.
LocationResult ==
    IF scope.kind = "pathRule"
    THEN CompositeGenerateForPathRule(gens, scope.rule).files
    ELSE CompositeGenerateForMatchRule(gens, scope.rule).files

Positions(files, type) == { k \in DOMAIN files : files[k].Type = type }

\* The k-th smallest element of a set of positions.
Kth(S, k) == CHOOSE i \in S : Cardinality({ j \in S : j < i }) = k - 1

\* out is the files of the result that have the type, in their order.
FilesOfType(out, files, type) ==
    /\ Len(out) = Cardinality(Positions(files, type))
    /\ \A k \in DOMAIN out : out[k] = files[Kth(Positions(files, type), k)]

\* C19: ForInternalLocation, ForExternalLocation and
\* ForExternalRedirectLocation partition a GenerateForLocationResult: every
\* file of the result is in exactly one of the three outputs, the one of its
\* Type, each output keeps the order of the result, and the result is as it
\* was.
C19_FiltersPartition ==
    genOp = "ForLocation" =>
        /\ genOut.files = LocationResult
        /\ \A k \in DOMAIN genOut.files : genOut.files[k].Type \in LocationTypes
        /\ FilesOfType(genOut.internal, genOut.files, "Internal")
        /\ FilesOfType(genOut.external, genOut.files, "External")
        /\ FilesOfType(genOut.externalRedirect, genOut.files, "ExternalRedirect")
        /\ Len(genOut.internal) + Len(genOut.external) + Len(genOut.externalRedirect)
               = Len(genOut.files)

\* A result with files of the three types, the redirect file first and two
\* other files after it.
C19_Witness ==
    /\ genOp = "ForLocation"
    /\ Len(genOut.files) = 3
    /\ genOut.files[1].Type = "ExternalRedirect"
    /\ genOut.internal = <<genOut.files[2]>>
    /\ genOut.external = <<genOut.files[3]>>
    /\ genOut.externalRedirect = <<genOut.files[1]>>

\* Two Internal files of different generators keep their order.
FiltersKeepOrder ==
    ( /\ genOp = "ForLocation"
      /\ Len(gens) = 2
      /\ gens[1].name = <<"x">> /\ gens[2].name = <<"y">> )
    => /\ Len(genOut.internal) = 2
       /\ genOut.internal[1] = genOut.files[1]
       /\ genOut.internal[2] = genOut.files[2]

(***************************************************************************)
(* Panics of getMaxSize (checked under SpecSize)                           *)
(***************************************************************************)

\* C20: for every pair of literals of the grammar, two literals without a
\* unit such as "5" and "5" or "15" and "20" among them, each getMaxSize
\* returns one of its two arguments and does not panic; and the merge loop of
\* GenerateForPathRule over literals of the grammar does not panic.
C20_ValidPairsReturn ==
    /\ (sizeOp \in {"getMaxSize", "getMaxSizePtr"} /\ BothValid) =>
          /\ ~sizeOut.panic
          /\ sizeOut.val \in {Lit(1), Lit(2)}
    /\ (sizeOp = "mergeMaxSizePtr" /\ AllValid) => ~sizeOut.panic

\* The pointer getMaxSize panics on two literals of the grammar exactly when
\* both end in the same character and one of them is a single digit; when it
\* returns, it returns one of its arguments.
PointerGetMaxSizePanics ==
    (sizeOp = "getMaxSizePtr" /\ BothValid) =>
        /\ sizeOut.panic <=>
              /\ LastChar(Lit(1)) = LastChar(Lit(2))
              /\ IsDigitChar(Lit(1)[Len(Lit(1))])
              /\ Len(Lit(1)) = 1 \/ Len(Lit(2)) = 1
        /\ ~sizeOut.panic => sizeOut.val \in {Lit(1), Lit(2)}

====
